---- MODULE Spec2Model ----
(***************************************************************************)
(* State-machine model of the eventmanager cog (src/eventmanager/main.py). *)
(*                                                                         *)
(* The cog runs on one asyncio event loop: the code between two awaits is  *)
(* atomic, and a coroutine suspended at an await can be overtaken by any   *)
(* other coroutine.  Each action below is one such atomic stretch of a     *)
(* handler.  Awaits whose only effect is an outgoing platform call are     *)
(* folded into the stretch that issues them; the outcome of the call (a    *)
(* direct message that cannot be delivered, an edit of a deleted message)  *)
(* is kept.                                                                *)
(*                                                                         *)
(* Event, Entrant (model.py) and the class/spec catalog (constants.py) are *)
(* imported by main.py but are not among the source files; they are        *)
(* modelled from the written specification of the cog.                     *)
(***************************************************************************)
EXTENDS Integers, Sequences, FiniteSets, TLC

\* ------------------------------------------------------------------ bounds
MaxEvents == 1
MaxHandlers == 2
MaxEntrants == 2
MaxReacts == 2
MaxTime == 1

Users == {"u1", "u2"}
\* accounts with user.bot set, and user ids that bot.get_user does not resolve
Bots == {"bot"}
Unresolved == {"ghost"}
Reactors == Users \cup Bots \cup Unresolved
Guilds == {"g1"}
\* the guilds that can have records in the persisted config
StoreGuilds == Guilds \cup {"g2"}
Channels == {"c1", "c2"}
\* the channel the command is invoked in
InvokingChannels == {"c1"}
NoChannel == "none"

\* ------------------------------------------------- catalog (constants.py)
EndEmoji == "end"
LeaveEmoji == "leave"
OtherEmoji == "other"

emoji_class_dict == [e \in {"e_warrior", "e_hunter"} |->
                        IF e = "e_warrior" THEN "Warrior" ELSE "DemonHunter"]

\* specs is the dict's item list, in the dict's (insertion) order
class_spec_dict ==
    [c \in {"Warrior", "DemonHunter"} |->
        IF c = "Warrior"
        THEN [emoji |-> "e_warrior",
              specs |-> << [name |-> "Arms", categories |-> <<"Melee">>],
                           [name |-> "Fury", categories |-> <<"Melee">>],
                           [name |-> "Protection", categories |-> <<"Tank", "Melee">>] >>]
        ELSE [emoji |-> "e_hunter",
              specs |-> << [name |-> "Havoc", categories |-> <<"Melee">>],
                           [name |-> "Vengeance", categories |-> <<"Tank", "Melee">>] >>]]

ClassEmojis == DOMAIN emoji_class_dict
Emojis == ClassEmojis \cup {EndEmoji, LeaveEmoji, OtherEmoji}

\* the texts a user may send as a direct message
Replies == {"1", "2", "3", "9", "two"}

\* str.isdigit() and int() on the reply texts
IsDigit(s) == s \in {"1", "2", "3", "9"}
ToInt(s) == CASE s = "1" -> 1 [] s = "2" -> 2 [] s = "3" -> 3 [] s = "9" -> 9

\* ------------------------------------------------------------------- state
VARIABLES
    now,         \* the clock read by time.time()
    posted,      \* the messages posted by the event command: posted[m] is where m lives
    gone,        \* the messages that have been deleted
    embed,       \* embed[m]: the embed the message m shows
    heap,        \* the Event objects, by object id
    cache,       \* self.cache: guild id -> message id -> Event object
    store,       \* the persisted config: <<guild id, message id>> -> serialized Event
    waiting,     \* reaction handlers suspended in bot.wait_for, in registration order
    confirming,  \* reaction handlers past add_entrant, before the confirmation DM
    loop,        \* the check_events task
    loaded,      \* TRUE while the cog is loaded (its command and listeners registered)
    members,     \* members[g]: the users that are members of guild g
    leave,       \* the running on_member_leave handler, <<>> when there is none
    nReact,      \* number of reactions handled so far
    sent,        \* the notices the last step delivered
    removed      \* <<message, user, emoji>>: the reactions the last step removed

vars == <<now, posted, gone, embed, heap, cache, store, waiting,
          confirming, loop, loaded, members, leave, nReact, sent, removed>>

Messages == 1..Len(posted)
NoObj == 0

\* ------------------------------------------------------ Event (model.py)
Entrant(user_id, category_class, category, spec) ==
    [user_id |-> user_id, category_class |-> category_class,
     category |-> category, spec |-> spec]

\* the entrants of user_id, in list order
EntrantsOf(ev, user_id) ==
    SelectSeq(ev.entrants, LAMBDA en : en.user_id = user_id)

\* Event.get_entrant: <<>> for None, else <<the first Entrant of the user>>
get_entrant(ev, user_id) ==
    IF EntrantsOf(ev, user_id) = <<>> THEN <<>> ELSE <<Head(EntrantsOf(ev, user_id))>>

\* Event.add_entrant: inserts; dropping a prior entry is left to the caller
add_entrant(ev, user_id, category_class, category, spec) ==
    [ev EXCEPT !.entrants = Append(@, Entrant(user_id, category_class, category, spec))]

RECURSIVE RemoveFirst(_, _)
RemoveFirst(s, x) ==
    IF s = <<>> THEN <<>>
    ELSE IF Head(s) = x THEN Tail(s)
    ELSE <<Head(s)>> \o RemoveFirst(Tail(s), x)

\* Event.remove_entrant: removes by value (list.remove)
remove_entrant(ev, entrant) ==
    [ev EXCEPT !.entrants = RemoveFirst(@, entrant)]

\* Event.end: marks the event ended
end(ev) == [ev EXCEPT !.ended = TRUE]

\* Event.embed: a function of the event's fields
Render(ev) == [entrants |-> ev.entrants, ended |-> ev.ended]

\* Event.message: TRUE when the live message can be fetched
message(ev) ==
    /\ ev.message_id \in Messages
    /\ ev.message_id \notin gone
    /\ posted[ev.message_id].channel = ev.channel_id

\* Event.json: the persisted record; every Entrant becomes a list of its fields
json(ev) ==
    [message_id |-> ev.message_id, guild_id |-> ev.guild_id, author_id |-> ev.author_id,
     channel_id |-> ev.channel_id, end_time |-> ev.end_time, ended |-> ev.ended,
     entrants |-> [i \in 1..Len(ev.entrants) |->
                     <<ev.entrants[i].user_id, ev.entrants[i].category_class,
                       ev.entrants[i].category, ev.entrants[i].spec>>]]

\* Event.from_json: the Event rebuilt from a persisted record
from_json(rec) ==
    [message_id |-> rec.message_id, guild_id |-> rec.guild_id, author_id |-> rec.author_id,
     channel_id |-> rec.channel_id, end_time |-> rec.end_time, ended |-> rec.ended,
     entrants |-> [i \in 1..Len(rec.entrants) |->
                     Entrant(rec.entrants[i][1], rec.entrants[i][2],
                             rec.entrants[i][3], rec.entrants[i][4])]]

\* ---------------------------------------------------------------- helpers
NoGuild == [present |-> FALSE, events |-> <<>>]

\* self.cache.get(guild_id).get(message_id), NoObj when either is missing
Lookup(g, m) ==
    IF cache[g].present /\ m \in DOMAIN cache[g].events THEN cache[g].events[m] ELSE NoObj

Notice(to, kind) == [to |-> to, kind |-> kind]

Handler(ev, user, emoji) == [ev |-> ev, user |-> user, emoji |-> emoji]

RemoveAt(s, i) == SubSeq(s, 1, i - 1) \o SubSeq(s, i + 1, Len(s))

\* message.remove_reaction(emoji, user): the reaction removed from message m; the
\* call fails on a deleted message, and the handlers swallow that
remove_reaction(m, emoji, user) == IF m \in gone THEN {} ELSE {<<m, user, emoji>>}

\* message.clear_reactions()
clear_reactions(m) ==
    IF m \in gone THEN {} ELSE {<<m, u, e>> : u \in Users, e \in Emojis}

\* --------------------------------------------------------------------- Init
Init ==
    /\ now = 0
    /\ posted = <<>>
    /\ gone = {}
    /\ embed = <<>>
    /\ heap = <<>>
    /\ cache = [g \in StoreGuilds |-> NoGuild]
    /\ store = <<>>
    /\ waiting = <<>>
    /\ confirming = <<>>
    /\ loop = "ready"
    /\ loaded = TRUE
    /\ members = [g \in Guilds |-> Users]
    /\ leave = <<>>
    /\ nReact = 0
    /\ sent = {}
    /\ removed = {}

\* ------------------------------------------------------------ event command
Put(f, k, v) == [x \in DOMAIN f \cup {k} |-> IF x = k THEN v ELSE f[x]]

\* EventManager.event: posts the event message and caches the new Event
event(author, g, ch, flag, end_time) ==
    /\ loaded
    /\ Len(posted) < MaxEvents
    /\ end_time \in (now + 1)..MaxTime
    /\ LET m == Len(posted) + 1
           o == Len(heap) + 1
           ev == [message_id |-> m, guild_id |-> g, author_id |-> author,
                  channel_id |-> IF flag = NoChannel THEN ch ELSE flag,
                  end_time |-> end_time, entrants |-> <<>>, ended |-> FALSE]
       IN  /\ posted' = Append(posted, [guild |-> g, channel |-> ch])
           /\ embed' = Append(embed, Render(ev))
           /\ heap' = Append(heap, ev)
           /\ cache' = [cache EXCEPT ![g] = [present |-> TRUE, events |-> Put(@.events, m, o)]]
    /\ author \in members[g]
    /\ leave' = IF leave # <<>> /\ leave[1].guild = g /\ ~leave[1].detached
                THEN <<[leave[1] EXCEPT !.resized = TRUE]>>
                ELSE leave
    /\ sent' = {}
    /\ removed' = {}
    /\ UNCHANGED <<now, gone, store, waiting, confirming, loop, members, nReact, loaded>>

\* -------------------------------------------------------- on_raw_reaction_add
\* a user adds a reaction to an existing message (a user can take an own reaction
\* off again at any time, which the cog does not listen to)
Reactable(u, m, e) ==
    /\ loaded
    /\ m \in Messages \ gone
    /\ u \in members[posted[m].guild] \cup Bots \cup Unresolved
    /\ nReact < MaxReacts

\* the Event object the handler binds, NoObj when one of its early returns is taken
Routed(m) ==
    LET o == Lookup(posted[m].guild, m)
    IN  IF o # NoObj /\ message(heap[o]) THEN o ELSE NoObj

\* bot.get_user(payload.user_id): <<>> for None, else <<the user>>
get_user(user_id) == IF user_id \in Unresolved THEN <<>> ELSE <<user_id>>

\* the handler gets past its early returns
Handled(u, m) ==
    /\ Routed(m) # NoObj
    /\ get_user(u) # <<>>
    /\ ~(get_user(u)[1] \in Bots)

\* the early returns: no cached event for the message, its message is not fetched,
\* the user is not resolved, or the user is a bot
ReactIgnored(u, m, e) ==
    /\ Reactable(u, m, e)
    /\ ~Handled(u, m)
    /\ nReact' = nReact + 1
    /\ sent' = {}
    /\ removed' = {}
    /\ UNCHANGED <<now, posted, gone, embed, heap, cache, store, waiting, confirming, loop, members, leave, loaded>>

\* an emoji that is no class emoji, nor the end or leave emoji: removed again
ReactUnknown(u, m, e) ==
    /\ Reactable(u, m, e)
    /\ Handled(u, m)
    /\ e \notin ClassEmojis /\ e \notin {EndEmoji, LeaveEmoji}
    /\ removed' = remove_reaction(m, e, u)
    /\ nReact' = nReact + 1
    /\ sent' = {}
    /\ UNCHANGED <<now, posted, gone, embed, heap, cache, store, waiting, confirming, loop, members, leave, loaded>>

\* valid_specs: the spec names of the class in the order of the prompt
valid_specs(class_name) ==
    [i \in 1..Len(class_spec_dict[class_name].specs) |-> class_spec_dict[class_name].specs[i].name]

\* details["specs"][spec]
SpecDetails(class_name, spec) ==
    CHOOSE s \in {class_spec_dict[class_name].specs[i] :
                    i \in 1..Len(class_spec_dict[class_name].specs)} : s.name = spec

\* ReactClassWith, without the return after the failure notice
ReactClassNoReturn(u, m, e, dmOk) ==
    /\ Reactable(u, m, e)
    /\ Handled(u, m)
    /\ e \in ClassEmojis
    /\ Len(waiting) + Len(confirming) < MaxHandlers
    /\ LET o == Routed(m)
           old == get_entrant(heap[o], u)
       IN  /\ removed' = IF old # <<>>
                         THEN remove_reaction(m, class_spec_dict[old[1].category_class].emoji, u)
                         ELSE {}
           /\ waiting' = Append(waiting, Handler(o, u, e))
           /\ sent' = IF dmOk THEN {Notice(u, "prompt")}
                               ELSE {Notice(posted[m].channel, "dm_failed")}
    /\ nReact' = nReact + 1
    /\ UNCHANGED <<now, posted, gone, embed, heap, cache, store, confirming, loop, members, leave, loaded>>

\* a class emoji, up to the wait for the reply; dmOk: the prompt can be delivered
ReactClassWith(u, m, e, dmOk) ==
    /\ Reactable(u, m, e)
    /\ Handled(u, m)
    /\ e \in ClassEmojis
    /\ Len(waiting) + Len(confirming) < MaxHandlers
    /\ LET o == Routed(m)
           old == get_entrant(heap[o], u)
       IN  /\ removed' = IF old # <<>>
                         THEN remove_reaction(m, class_spec_dict[old[1].category_class].emoji, u)
                         ELSE {}
           /\ IF dmOk
              THEN /\ waiting' = Append(waiting, Handler(o, u, e))
                   /\ sent' = {Notice(u, "prompt")}
              ELSE /\ waiting' = waiting
                   /\ sent' = {Notice(posted[m].channel, "dm_failed")}
    /\ nReact' = nReact + 1
    /\ UNCHANGED <<now, posted, gone, embed, heap, cache, store, confirming, loop, members, leave, loaded>>

ReactClass(u, m, e) == \E dmOk \in BOOLEAN : ReactClassWith(u, m, e, dmOk)

\* the reply check of the wait loop
ValidAnswer(content, class_name) ==
    ~(~IsDigit(content) \/ ToInt(content) \notin {i + 1 : i \in 0..(Len(valid_specs(class_name)) - 1)})

\* Selected, taking the last category of the spec instead of the first
SelectedLastCategory(user, class_name, answer) ==
    LET spec == valid_specs(class_name)[answer]
        categories == SpecDetails(class_name, spec).categories
    IN  Entrant(user, class_name, categories[Len(categories)], spec)

\* the Entrant the handler creates for the answer
Selected(user, class_name, answer) ==
    LET spec == valid_specs(class_name)[answer]
    IN  Entrant(user, class_name, SpecDetails(class_name, spec).categories[1], spec)

\* Resume, leaving the wait loop after an invalid reply instead of waiting again
ResumeNoRetry(w, acc, msg, dmOk) ==
    IF w.user # msg.author
    THEN [acc EXCEPT !.waiting = Append(@, w)]
    ELSE LET class_name == emoji_class_dict[w.emoji] IN
         IF ~ValidAnswer(msg.content, class_name)
         THEN IF dmOk
              THEN [acc EXCEPT !.sent = @ \cup {Notice(w.user, "invalid")}]
              ELSE acc
         ELSE LET en == Selected(w.user, class_name, ToInt(msg.content))
              IN  [acc EXCEPT !.heap[w.ev] = add_entrant(@, en.user_id, en.category_class,
                                                         en.category, en.spec),
                              !.confirming = Append(@, w)]

\* Resume, with a handler that writes a roster holding only its own Entrant
ResumeAlone(w, acc, msg, dmOk) ==
    IF w.user # msg.author
    THEN [acc EXCEPT !.waiting = Append(@, w)]
    ELSE LET class_name == emoji_class_dict[w.emoji] IN
         IF ~ValidAnswer(msg.content, class_name)
         THEN IF dmOk
              THEN [acc EXCEPT !.waiting = Append(@, w),
                               !.sent = @ \cup {Notice(w.user, "invalid")}]
              ELSE acc
         ELSE LET en == Selected(w.user, class_name, ToInt(msg.content))
              IN  [acc EXCEPT !.heap[w.ev].entrants = <<en>>,
                              !.confirming = Append(@, w)]

\* one waiting handler sees the direct message msg; acc is the state so far
Resume(w, acc, msg, dmOk) ==
    IF w.user # msg.author
    THEN [acc EXCEPT !.waiting = Append(@, w)]
    ELSE LET class_name == emoji_class_dict[w.emoji] IN
         IF ~ValidAnswer(msg.content, class_name)
         THEN IF dmOk
              THEN [acc EXCEPT !.waiting = Append(@, w),
                               !.sent = @ \cup {Notice(w.user, "invalid")}]
              ELSE acc
         ELSE LET en == Selected(w.user, class_name, ToInt(msg.content))
              IN  [acc EXCEPT !.heap[w.ev] = add_entrant(@, en.user_id, en.category_class,
                                                         en.category, en.spec),
                              !.confirming = Append(@, w)]

RECURSIVE Dispatch(_, _, _, _)
\* bot.dispatch("message"): every registered wait_for whose check passes is resumed
Dispatch(ws, acc, msg, dmOk) ==
    IF ws = <<>> THEN acc
    ELSE Dispatch(Tail(ws), Resume(Head(ws), acc, msg, dmOk), msg, dmOk)

\* the user sends a direct message to the bot; dmOk: a notice sent back is delivered
DMWith(u, content, dmOk) ==
    /\ \E i \in 1..Len(waiting) : waiting[i].user = u
    /\   LET acc == Dispatch(waiting,
                             [heap |-> heap, waiting |-> <<>>, confirming |-> confirming,
                              sent |-> {}],
                             [author |-> u, content |-> content], dmOk)
         IN  /\ \A o \in DOMAIN acc.heap : Len(acc.heap[o].entrants) <= MaxEntrants
             /\ heap' = acc.heap
             /\ waiting' = acc.waiting
             /\ confirming' = acc.confirming
             /\ sent' = acc.sent
    /\ removed' = {}
    /\ UNCHANGED <<now, posted, gone, embed, cache, store, loop, members, leave, nReact, loaded>>

DM(u, content) == \E dmOk \in BOOLEAN : DMWith(u, content, dmOk)

\* the wait of handler i runs into its timeout; dmOk: the notice is delivered
TimeoutWith(i, dmOk) ==
    /\ i \in 1..Len(waiting)
    /\ LET w == waiting[i]
           m == heap[w.ev].message_id
       IN  IF dmOk
           THEN /\ sent' = {Notice(w.user, "timeout")}
                /\ removed' = remove_reaction(m, w.emoji, w.user)
           ELSE /\ sent' = {}
                /\ removed' = {}
    /\ waiting' = RemoveAt(waiting, i)
    /\ UNCHANGED <<now, posted, gone, embed, heap, cache, store, confirming, loop, members, leave, nReact, loaded>>

Timeout(i) == \E dmOk \in BOOLEAN : TimeoutWith(i, dmOk)

\* handler i, past add_entrant: confirmation DM, message edit, reaction removal
Finish(i) ==
    /\ i \in 1..Len(confirming)
    /\ LET w == confirming[i]
           m == heap[w.ev].message_id
       IN  \E dmOk \in BOOLEAN :
             IF dmOk /\ m \notin gone
             THEN /\ sent' = {Notice(w.user, "signed_up")}
                  /\ embed' = [embed EXCEPT ![m] = Render(heap[w.ev])]
                  /\ removed' = remove_reaction(m, w.emoji, w.user)
             ELSE /\ sent' = IF dmOk THEN {Notice(w.user, "signed_up")} ELSE {}
                  /\ removed' = {}
                  /\ embed' = embed
    /\ confirming' = RemoveAt(confirming, i)
    /\ UNCHANGED <<now, posted, gone, heap, cache, store, waiting, loop, members, leave, nReact, loaded>>

\* ReactEnd, with an end operation that flips the ended flag
ReactEndToggle(u, m, e) ==
    /\ Reactable(u, m, e)
    /\ Handled(u, m)
    /\ e = EndEmoji
    /\ LET o == Routed(m) IN
       IF ~(heap[o].author_id = u)
       THEN /\ removed' = remove_reaction(m, e, u)
            /\ sent' = {}
            /\ UNCHANGED <<heap, embed>>
       ELSE /\ removed' = clear_reactions(m)
            /\ heap' = [heap EXCEPT ![o].ended = ~@]
            /\ \E dmOk \in BOOLEAN :
                 IF dmOk
                 THEN /\ sent' = {Notice(u, "ended")}
                      /\ embed' = [embed EXCEPT ![m] = Render(heap'[o])]
                 ELSE /\ sent' = {}
                      /\ embed' = embed
    /\ nReact' = nReact + 1
    /\ UNCHANGED <<now, posted, gone, cache, store, waiting, confirming, loop, members, leave, loaded>>

\* ReactEnd, without the check of the author
ReactEndAnyUser(u, m, e) ==
    /\ Reactable(u, m, e)
    /\ Handled(u, m)
    /\ e = EndEmoji
    /\ LET o == Routed(m) IN
       /\ removed' = clear_reactions(m)
       /\ heap' = [heap EXCEPT ![o] = end(@)]
       /\ \E dmOk \in BOOLEAN :
            IF dmOk
            THEN /\ sent' = {Notice(u, "ended")}
                 /\ embed' = [embed EXCEPT ![m] = Render(end(heap[o]))]
            ELSE /\ sent' = {}
                 /\ embed' = embed
    /\ nReact' = nReact + 1
    /\ UNCHANGED <<now, posted, gone, cache, store, waiting, confirming, loop, members, leave, loaded>>

\* the end emoji
ReactEnd(u, m, e) ==
    /\ Reactable(u, m, e)
    /\ Handled(u, m)
    /\ e = EndEmoji
    /\ LET o == Routed(m) IN
       IF ~(heap[o].author_id = u)
       THEN /\ removed' = remove_reaction(m, e, u)
            /\ sent' = {}
            /\ UNCHANGED <<heap, embed>>
       ELSE /\ removed' = clear_reactions(m)
            /\ heap' = [heap EXCEPT ![o] = end(@)]
            /\ \E dmOk \in BOOLEAN :
                 IF dmOk
                 THEN /\ sent' = {Notice(u, "ended")}
                      /\ embed' = [embed EXCEPT ![m] = Render(end(heap[o]))]
                 ELSE /\ sent' = {}
                      /\ embed' = embed
    /\ nReact' = nReact + 1
    /\ UNCHANGED <<now, posted, gone, cache, store, waiting, confirming, loop, members, leave, loaded>>

\* the leave emoji; dmOk: the notice is delivered
ReactLeaveWith(u, m, e, dmOk) ==
    /\ Reactable(u, m, e)
    /\ Handled(u, m)
    /\ e = LeaveEmoji
    /\ removed' = remove_reaction(m, e, u)
    /\ LET o == Routed(m)
           entrant == get_entrant(heap[o], u)
       IN  IF entrant # <<>>
           THEN /\ heap' = [heap EXCEPT ![o] = remove_entrant(@, entrant[1])]
                /\ IF dmOk
                   THEN /\ sent' = {Notice(u, "removed")}
                        /\ embed' = [embed EXCEPT ![m] = Render(remove_entrant(heap[o], entrant[1]))]
                   ELSE /\ sent' = {}
                        /\ embed' = embed
           ELSE /\ sent' = IF dmOk THEN {Notice(u, "not_signed_up")} ELSE {}
                /\ UNCHANGED <<heap, embed>>
    /\ nReact' = nReact + 1
    /\ UNCHANGED <<now, posted, gone, cache, store, waiting, confirming, loop, members, leave, loaded>>

ReactLeave(u, m, e) == \E dmOk \in BOOLEAN : ReactLeaveWith(u, m, e, dmOk)

\* ------------------------------------------------------------ on_member_leave
RECURSIVE FirstWith(_, _, _)
\* the position in todo of the first event object that holds an Entrant of user, 0 if none
FirstWith(todo, hp, user) ==
    IF todo = <<>> THEN 0
    ELSE IF get_entrant(hp[Head(todo)], user) # <<>> THEN 1
    ELSE LET r == FirstWith(Tail(todo), hp, user) IN IF r = 0 THEN 0 ELSE r + 1

\* the values of the guild's dict in iteration order
EventsOf(g) ==
    LET d == cache[g].events
        RECURSIVE Ordered(_)
        Ordered(ks) == IF ks = {} THEN <<>>
                       ELSE LET k == CHOOSE x \in ks : \A y \in ks : x <= y
                            IN  <<d[k]>> \o Ordered(ks \ {k})
    IN  Ordered(DOMAIN d)

\* the for loop from its next iteration on, up to the await of event.message():
\* the leave and heap after it.  An iteration over a dict that has changed size raises.
LeaveLoop(l) ==
    LET i == FirstWith(l.todo, heap, l.member) IN
    IF l.todo = <<>> \/ l.resized \/ i = 0
    THEN [leave |-> <<>>, heap |-> heap]
    ELSE LET o == l.todo[i] IN
         [leave |-> <<[l EXCEPT !.todo = SubSeq(l.todo, i + 1, Len(l.todo)),
                                !.cur = o, !.stage = "fetch"]>>,
          heap |-> [heap EXCEPT ![o] = remove_entrant(@, get_entrant(heap[o], l.member)[1])]]

\* the member leaves the guild and the handler runs up to its first await
on_member_leave(u, g) ==
    /\ loaded
    /\ u \in members[g]
    /\ leave = <<>>
    /\ members' = [members EXCEPT ![g] = @ \ {u}]
    /\ IF ~cache[g].present
       THEN UNCHANGED <<leave, heap>>
       ELSE LET r == LeaveLoop([member |-> u, guild |-> g, todo |-> EventsOf(g), cur |-> NoObj,
                                stage |-> "loop", shown |-> <<>>, resized |-> FALSE,
                                detached |-> FALSE])
            IN  leave' = r.leave /\ heap' = r.heap
    /\ sent' = {}
    /\ removed' = {}
    /\ UNCHANGED <<now, posted, gone, embed, cache, store, waiting, confirming, loop, nReact, loaded>>

\* event.message() returns: None skips to the next iteration, else msg.edit is called
\* with the embed rendered now
LeaveFetched ==
    /\ leave # <<>> /\ leave[1].stage = "fetch"
    /\ IF ~message(heap[leave[1].cur])
       THEN LET r == LeaveLoop(leave[1]) IN leave' = r.leave /\ heap' = r.heap
       ELSE /\ leave' = <<[leave[1] EXCEPT !.stage = "edit", !.shown = <<Render(heap[leave[1].cur])>>]>>
            /\ heap' = heap
    /\ sent' = {}
    /\ removed' = {}
    /\ UNCHANGED <<now, posted, gone, embed, cache, store, waiting, confirming, loop, members, nReact, loaded>>

\* msg.edit returns: it raises on a message deleted in between, which ends the handler
LeaveEdited ==
    /\ leave # <<>> /\ leave[1].stage = "edit"
    /\ LET m == heap[leave[1].cur].message_id IN
       IF m \in gone
       THEN /\ leave' = <<>>
            /\ UNCHANGED <<heap, embed>>
       ELSE LET r == LeaveLoop([leave[1] EXCEPT !.shown = <<>>])
            IN  /\ embed' = [embed EXCEPT ![m] = leave[1].shown[1]]
                /\ leave' = r.leave
                /\ heap' = r.heap
    /\ sent' = {}
    /\ removed' = {}
    /\ UNCHANGED <<now, posted, gone, cache, store, waiting, confirming, loop, members, nReact, loaded>>

\* ------------------------------------------------------------- environment
\* the event message is deleted
DeleteMessage(m) ==
    /\ m \in Messages \ gone
    /\ gone' = gone \cup {m}
    /\ sent' = {}
    /\ removed' = {}
    /\ UNCHANGED <<now, posted, embed, heap, cache, store, waiting, confirming, loop, members, leave, nReact, loaded>>

Tick ==
    /\ now < MaxTime
    /\ now' = now + 1
    /\ sent' = {}
    /\ removed' = {}
    /\ UNCHANGED <<posted, gone, embed, heap, cache, store, waiting, confirming, loop, members, leave, nReact, loaded>>

\* ---------------------------------------------------------------- check_events
\* EventManager.to_config: every cached event is written under its guild id and
\* message id
to_config(st) ==
    LET objs == UNION {{cache[g].events[m] : m \in DOMAIN cache[g].events} : g \in StoreGuilds}
        keys == {<<heap[o].guild_id, heap[o].message_id>> : o \in objs}
    IN  [k \in DOMAIN st \cup keys |->
            IF k \in keys
            THEN json(heap[CHOOSE o \in objs : <<heap[o].guild_id, heap[o].message_id>> = k])
            ELSE st[k]]

\* one run of the check_events task: the flush, then `await self.cache.clear()`
\* clears the cache and raises TypeError (dict.clear() returns None, which cannot
\* be awaited); the reload and the expiry scan are not reached and the task ends
check_events ==
    /\ loop = "ready"
    /\ store' = to_config(store)
    /\ cache' = [g \in StoreGuilds |-> NoGuild]
    /\ loop' = "failed"
    /\ leave' = IF leave = <<>> THEN leave ELSE <<[leave[1] EXCEPT !.detached = TRUE]>>
    /\ sent' = {}
    /\ removed' = {}
    /\ UNCHANGED <<now, posted, gone, embed, heap, waiting, confirming, members, nReact, loaded>>

\* EventManager.cog_unload: the cog is unloaded and the flush task it creates runs
cog_unload ==
    /\ loaded
    /\ loaded' = FALSE
    /\ store' = to_config(store)
    /\ sent' = {}
    /\ removed' = {}
    /\ UNCHANGED <<now, posted, gone, embed, heap, cache, waiting, confirming, loop, members, leave, nReact>>

\* ------------------------------------------------------------------- to_cache
\* the keys of a serialized Event
Fields == {"message_id", "guild_id", "author_id", "channel_id", "end_time", "ended", "entrants"}

\* event["message_id"] and Event.from_json(bot, event) raise on a record that lacks
\* a key
Deserializable(rec) == DOMAIN rec = Fields

\* the keys of the config in the order the load iterates them
RECURSIVE KeySeq(_)
KeySeq(ks) ==
    IF ks = {} THEN <<>>
    ELSE LET k == CHOOSE x \in ks : \A y \in ks : x[2] <= y[2]
         IN  <<k>> \o KeySeq(ks \ {k})

RECURSIVE LoadAbort(_, _, _)
\* Load, with the try around the loops: a record that raises ends the load
LoadAbort(ks, st, acc) ==
    IF ks = <<>> THEN acc
    ELSE LET g == Head(ks)[1]
             rec == st[Head(ks)]
             seen == [acc EXCEPT !.cache[g].present = TRUE]
         IN  IF Deserializable(rec)
             THEN LoadAbort(Tail(ks), st,
                            [heap |-> Append(seen.heap, from_json(rec)),
                             cache |-> [seen.cache EXCEPT ![g].events =
                                             Put(@, rec.message_id, Len(seen.heap) + 1)]])
             ELSE seen

RECURSIVE Load(_, _, _)
\* the loops of to_cache over the records under the keys ks; acc: the cache and the
\* Event objects so far.  A record that raises is logged and skipped.
Load(ks, st, acc) ==
    IF ks = <<>> THEN acc
    ELSE LET g == Head(ks)[1]
             rec == st[Head(ks)]
             seen == [acc EXCEPT !.cache[g].present = TRUE]
         IN  Load(Tail(ks), st,
                  IF Deserializable(rec)
                  THEN [heap |-> Append(seen.heap, from_json(rec)),
                        cache |-> [seen.cache EXCEPT ![g].events =
                                        Put(@, rec.message_id, Len(seen.heap) + 1)]]
                  ELSE seen)

\* EventManager.to_cache
to_cache(st, acc) == Load(KeySeq(DOMAIN st), st, acc)

\* setup: a new cog is constructed, added to the bot, and loads its cache
setup ==
    /\ ~loaded
    /\ loaded' = TRUE
    /\ LET r == to_cache(store, [cache |-> [g \in StoreGuilds |-> NoGuild], heap |-> heap])
       IN  cache' = r.cache /\ heap' = r.heap
    /\ sent' = {}
    /\ removed' = {}
    /\ UNCHANGED <<now, posted, gone, embed, store, waiting, confirming, loop, members, leave, nReact>>

\* ---------------------------------------------------------------------- Next
\* the cog as it is wired: nothing starts the check_events task
Next ==
    \/ \E u \in Users, g \in Guilds, ch \in InvokingChannels, flag \in Channels \cup {NoChannel},
          t \in 1..MaxTime : event(u, g, ch, flag, t)
    \/ \E u \in Reactors, m \in Messages, e \in Emojis : ReactIgnored(u, m, e)
    \/ \E u \in Reactors, m \in Messages, e \in Emojis : ReactUnknown(u, m, e)
    \/ \E u \in Reactors, m \in Messages, e \in Emojis : ReactClass(u, m, e)
    \/ \E u \in Reactors, m \in Messages, e \in Emojis : ReactEnd(u, m, e)
    \/ \E u \in Reactors, m \in Messages, e \in Emojis : ReactLeave(u, m, e)
    \/ \E u \in Users, c \in Replies : DM(u, c)
    \/ \E i \in 1..MaxHandlers : Timeout(i)
    \/ \E i \in 1..MaxHandlers : Finish(i)
    \/ \E u \in Users, g \in Guilds : on_member_leave(u, g)
    \/ LeaveFetched
    \/ LeaveEdited
    \/ \E m \in Messages : DeleteMessage(m)

Spec == Init /\ [][Next]_vars

\* the cog with the check_events task started by its host
NextLoop ==
    \/ Next
    \/ Tick
    \/ check_events
    \/ cog_unload

SpecLoop == Init /\ [][NextLoop]_vars

\* ------------------------------------------------------- loading from the store
\* the keys under which an earlier run of the cog has left records
StoredKeys == {<<"g1", 1>>, <<"g1", 2>>, <<"g2", 3>>}

StoredEvent(k, entrants, ended) ==
    [message_id |-> k[2], guild_id |-> k[1], author_id |-> "u1", channel_id |-> "c1",
     end_time |-> 1, entrants |-> entrants, ended |-> ended]

\* the records a key can hold: serialized events, and records that lack keys
StoredRecords(k) ==
    {json(StoredEvent(k, <<>>, FALSE)),
     json(StoredEvent(k, <<Entrant("u1", "Warrior", "Melee", "Arms")>>, FALSE)),
     json(StoredEvent(k, <<Entrant("u2", "DemonHunter", "Tank", "Vengeance")>>, TRUE)),
     [message_id |-> k[2], guild_id |-> k[1]],
     [guild_id |-> k[1], entrants |-> <<>>]}

\* the bot starts with a config written by an earlier run, before the cog is set up
InitLoad ==
    /\ now = 0
    /\ posted = <<[guild |-> "g1", channel |-> "c1"], [guild |-> "g1", channel |-> "c1"],
                  [guild |-> "g2", channel |-> "c1"]>>
    /\ gone = {}
    /\ \E K \in SUBSET StoredKeys :
          /\ store \in [K -> UNION {StoredRecords(k) : k \in StoredKeys}]
          /\ \A k \in K : store[k] \in StoredRecords(k)
    /\ embed = [m \in 1..3 |-> Render(StoredEvent(<<"g1", m>>, <<>>, FALSE))]
    /\ heap = <<>>
    /\ cache = [g \in StoreGuilds |-> NoGuild]
    /\ waiting = <<>>
    /\ confirming = <<>>
    /\ loop = "ready"
    /\ loaded = FALSE
    /\ members = [g \in Guilds |-> Users]
    /\ leave = <<>>
    /\ nReact = 0
    /\ sent = {}
    /\ removed = {}

NextLoad == setup

SpecLoad == InitLoad /\ [][NextLoad]_vars

\* ================================================================== claims
\* the decimal numeral a user types for the number k
Numeral(k) == CASE k = 1 -> "1" [] k = 2 -> "2" [] k = 3 -> "3" [] k = 9 -> "9"

\* the number of specs listed in the prompt of a class emoji
NumSpecs(e) == Len(class_spec_dict[emoji_class_dict[e]].specs)

\* the replies that select a spec of the class of emoji e
ValidReplies(e) == {Numeral(k) : k \in 1..NumSpecs(e)}

\* the entrants appended to the roster of object o by the step
Added(o) == SubSeq(heap'[o].entrants, Len(heap[o].entrants) + 1, Len(heap'[o].entrants))

\* the waiting handlers of user u on object o, in registration order
WaitersOf(u, o) == SelectSeq(waiting, LAMBDA w : w.user = u /\ w.ev = o)

\* C1: in every reachable state, every event's entrant list holds at most one
\* Entrant per user id.
C1_AtMostOneEntrant ==
    \A o \in DOMAIN heap : \A u \in Users : Len(EntrantsOf(heap[o], u)) <= 1

\* C2: a non-author's end reaction is stripped and leaves the ended flag (and the
\* whole event) as it was; a step that sets an event's ended flag is the end
\* reaction of that event's author.
C2_OnlyAuthorEnds ==
    [][ /\ \A u \in Users, m \in Messages :
             (ReactEnd(u, m, EndEmoji) /\ heap[Routed(m)].author_id # u)
                => (<<m, u, EndEmoji>> \in removed' /\ heap' = heap)
        /\ \A o \in DOMAIN heap :
             (~heap[o].ended /\ heap'[o].ended)
                => ReactEnd(heap[o].author_id, heap[o].message_id, EndEmoji) ]_vars

\* a non-author has reacted with the end emoji to a live event, and it was stripped
C2_Witness ==
    \E m \in Messages, u \in Users :
        /\ <<m, u, EndEmoji>> \in removed
        /\ Routed(m) # NoObj
        /\ heap[Routed(m)].author_id # u
        /\ ~heap[Routed(m)].ended

\* C3: for a class with n specs and a reply k in 1..n, the Entrant created for the
\* user has the class of the reacted emoji, the k-th listed spec and that spec's
\* first category.
C3_SelectedSpec ==
    [][ \A u \in Users, k \in 1..3 :
          DM(u, Numeral(k)) =>
            \A o \in DOMAIN heap :
              LET ws == SelectSeq(WaitersOf(u, o), LAMBDA w : k <= NumSpecs(w.emoji))
              IN  /\ Len(Added(o)) = Len(ws)
                  /\ \A i \in 1..Len(ws) :
                       LET details == class_spec_dict[emoji_class_dict[ws[i].emoji]]
                       IN  Added(o)[i] =
                             [user_id |-> u,
                              category_class |-> emoji_class_dict[ws[i].emoji],
                              spec |-> details.specs[k].name,
                              category |-> details.specs[k].categories[1]] ]_vars

\* a user is signed up with the third spec of the three-spec class, whose first
\* category differs from its last
C3_Witness ==
    \E o \in DOMAIN heap, i \in 1..MaxEntrants :
        /\ i <= Len(heap[o].entrants)
        /\ heap[o].entrants[i].spec = "Protection"

\* C4: after a signup completes with a valid selection, get_entrant(user id) on the
\* event returns exactly the selected class, spec and category, also when the user
\* had an Entrant before (class swap).  Stated for a user with one selection pending.
C4_LookupReturnsSelection ==
    [][ \A u \in Users, k \in 1..3 :
          DM(u, Numeral(k)) =>
            \A i \in 1..Len(waiting) :
              LET w == waiting[i]
                  details == class_spec_dict[emoji_class_dict[w.emoji]]
              IN  (/\ w.user = u /\ k <= NumSpecs(w.emoji)
                   /\ Len(SelectSeq(waiting, LAMBDA x : x.user = u)) = 1) =>
                     get_entrant(heap'[w.ev], u) =
                        << [user_id |-> u,
                            category_class |-> emoji_class_dict[w.emoji],
                            spec |-> details.specs[k].name,
                            category |-> details.specs[k].categories[1]] >> ]_vars

\* the handlers of user u that wait with a class for which the reply c is invalid
InvalidFor(u, c) ==
    SelectSeq(waiting, LAMBDA w : w.user = u /\ c \notin ValidReplies(w.emoji))

C6_PassEndsExpired ==
    [][ (loop = "ready" /\ loop' # "ready") =>
          \A g \in Guilds, m \in Messages :
            LET o == Lookup(g, m)
            IN  (o # NoObj /\ heap[o].end_time <= now /\ message(heap[o])) =>
                   /\ heap'[o].ended
                   /\ embed'[m].ended ]_vars

\* C7: when the wait times out, the user is notified and the triggering reaction
\* is taken off (both when the notice can be delivered), and the event holds no
\* Entrant for the user.  Stated for a user with no other selection in progress.
C7_TimeoutNotSignedUp ==
    [][ \A i \in 1..MaxHandlers, dmOk \in BOOLEAN :
          (/\ i <= Len(waiting) /\ TimeoutWith(i, dmOk)
           /\ Len(SelectSeq(waiting \o confirming, LAMBDA x : x.user = waiting[i].user)) = 1) =>
            LET w == waiting[i]
                m == heap[w.ev].message_id
            IN  /\ dmOk => /\ Notice(w.user, "timeout") \in sent'
                           /\ (m \in gone \/ <<m, w.user, w.emoji>> \in removed')
                /\ get_entrant(heap'[w.ev], w.user) = <<>> ]_vars

\* C8 as stated: when the prompt cannot be delivered, the failure notice is posted
\* in the event's channel, the triggering reaction stays, no Entrant is created and
\* the handler does not enter the wait.
C8_DmFailureAborts ==
    [][ \A u \in Users, m \in Messages, e \in ClassEmojis :
          ReactClassWith(u, m, e, FALSE) =>
            /\ Notice(posted[m].channel, "dm_failed") \in sent'
            /\ <<m, u, e>> \notin removed'
            /\ heap' = heap
            /\ waiting' = waiting /\ confirming' = confirming ]_vars

\* C8 amended: when the prompt cannot be delivered, the failure notice is posted in
\* the event's channel, no Entrant is created and the handler does not enter the
\* wait; the triggering reaction stays on the message unless the user already holds
\* an Entrant of the same class, whose reaction the swap cleanup has removed.
C8_DmFailureAmended ==
    [][ \A u \in Users, m \in Messages, e \in ClassEmojis :
          ReactClassWith(u, m, e, FALSE) =>
            /\ Notice(posted[m].channel, "dm_failed") \in sent'
            /\ <<m, u, e>> \in removed'
                 <=> \E i \in 1..Len(heap[Routed(m)].entrants) :
                        /\ heap[Routed(m)].entrants[i].user_id = u
                        /\ heap[Routed(m)].entrants[i] = Head(EntrantsOf(heap[Routed(m)], u))
                        /\ heap[Routed(m)].entrants[i].category_class = emoji_class_dict[e]
            /\ heap' = heap
            /\ waiting' = waiting /\ confirming' = confirming ]_vars

\* the failure notice was posted for a user who holds an Entrant, and a reaction of
\* the user was removed
C8_Witness ==
    \E ch \in Channels, r \in removed :
        /\ Notice(ch, "dm_failed") \in sent
        /\ r[3] \in ClassEmojis

\* C9: the leave reaction is stripped; an Entrant of the user is removed, so that
\* get_entrant returns none afterwards, and the embed is updated; a user without
\* Entrant leaves the roster unchanged and gets the not-signed-up notice (when it
\* can be delivered); the Entrants of other users are unchanged.
C9_LeaveRemoves ==
    [][ \A u \in Users, m \in Messages, dmOk \in BOOLEAN :
          ReactLeaveWith(u, m, LeaveEmoji, dmOk) =>
            LET o == Routed(m)
            IN  /\ <<m, u, LeaveEmoji>> \in removed'
                /\ IF get_entrant(heap[o], u) # <<>>
                   THEN /\ get_entrant(heap'[o], u) = <<>>
                        /\ embed'[m] = Render(heap'[o])
                   ELSE /\ heap' = heap
                        /\ dmOk => Notice(u, "not_signed_up") \in sent'
                /\ \A v \in Users \ {u} : EntrantsOf(heap'[o], v) = EntrantsOf(heap[o], v) ]_vars

\* C10: once the member-leave handler for a member of a guild has run, no cached
\* event of that guild holds an Entrant of the member.
C10_DepartedNotInRoster ==
    \A g \in Guilds : \A u \in Users \ members[g] :
        leave = <<>> =>
            \A m \in DOMAIN cache[g].events :
                get_entrant(heap[cache[g].events[m]], u) = <<>>

Reaction(u, m, e) ==
    \/ ReactIgnored(u, m, e)
    \/ ReactUnknown(u, m, e)
    \/ ReactClass(u, m, e)
    \/ ReactEnd(u, m, e)
    \/ ReactLeave(u, m, e)

\* the emojis that are neither a class emoji nor the end or the leave emoji
UnknownEmojis == Emojis \ (ClassEmojis \cup {EndEmoji, LeaveEmoji})

\* C12: a reaction added by a bot, by a user that is not resolved, with an
\* unrecognized emoji, or on a message that is no cached event leaves every roster
\* and ended flag unchanged and starts no spec selection; an unrecognized emoji that
\* a resolved non-bot user adds to the message of a cached event is removed.
C12_IgnoredReactions ==
    [][ \A u \in Reactors, m \in Messages, e \in Emojis :
          Reaction(u, m, e) =>
            /\ (\/ u \in Bots \/ u \in Unresolved \/ e \in UnknownEmojis
                \/ Lookup(posted[m].guild, m) = NoObj)
                 => /\ heap' = heap
                    /\ waiting' = waiting /\ confirming' = confirming
            /\ (/\ e \in UnknownEmojis /\ u \in Users
                /\ Lookup(posted[m].guild, m) # NoObj)
                 => <<m, u, e>> \in removed' ]_vars

\* C13: for every cached event, the message with the event's message id lives in
\* the channel with the event's channel id (the channel given by --channel, else
\* the invoking channel), and the event's message lookup resolves it.
C13_MessageInEventChannel ==
    \A g \in Guilds : \A m \in DOMAIN cache[g].events :
        LET ev == heap[cache[g].events[m]]
        IN  /\ ev.message_id \in Messages
            /\ posted[ev.message_id].channel = ev.channel_id
            /\ ev.message_id \notin gone => message(ev)

\* C14: a reconciliation pass or the unload flush leaves in the store, under the
\* guild id and message id of every cached event, the serialized state of that
\* event, and after a reconciliation pass the cache holds the same events with the
\* same rosters as before it.
C14_StoreMirrorsCache ==
    [][ (check_events \/ cog_unload) =>
          \A g \in StoreGuilds : \A m \in DOMAIN cache[g].events :
             LET ev == heap[cache[g].events[m]]
             IN  /\ <<g, m>> \in DOMAIN store'
                 /\ store'[<<g, m>>] = json(ev)
                 /\ check_events =>
                      /\ m \in DOMAIN cache'[g].events
                      /\ heap'[cache'[g].events[m]].entrants = ev.entrants
                      /\ heap'[cache'[g].events[m]].ended = ev.ended ]_vars

\* C15: when the cache is loaded from the store, a record that fails to
\* deserialize is skipped, and every other stored record of every guild is in
\* the cache under its guild id and message id, as the event it deserializes to.
C15_LoadSkipsBadRecord ==
    [][ setup =>
          \A k \in DOMAIN store :
             IF Deserializable(store[k])
             THEN /\ cache'[k[1]].present
                  /\ store[k].message_id \in DOMAIN cache'[k[1]].events
                  /\ heap'[cache'[k[1]].events[store[k].message_id]] = from_json(store[k])
                  /\ json(heap'[cache'[k[1]].events[store[k].message_id]]) = store[k]
             ELSE k[2] \notin DOMAIN cache'[k[1]].events ]_vars

\* the cache was loaded from a store whose first record fails to deserialize, and
\* holds the records stored after it, of the same guild and of another one
C15_Witness ==
    /\ loaded
    /\ DOMAIN store = StoredKeys
    /\ ~Deserializable(store[<<"g1", 1>>])
    /\ 2 \in DOMAIN cache["g1"].events
    /\ Len(heap[cache["g1"].events[2]].entrants) = 1
    /\ 3 \in DOMAIN cache["g2"].events

\* the handlers in hs that belong to users other than u
OthersIn(hs, u) == SelectSeq(hs, LAMBDA w : w.user # u)

\* C16: a pending spec selection of one user does not hold up another user: every
\* step of the handling of another user's reaction (the reaction, the reply, the
\* confirmation) goes through with the pending handlers of all other users left
\* as they are, and a valid reply of the waiting user adds that user's Entrant and
\* keeps the Entrants that other users got in the meantime.
C16_OtherUsersProceed ==
    [][ /\ \A v \in Users :
             (\/ \E m \in Messages, e \in Emojis : Reaction(v, m, e)
              \/ \E c \in Replies : DM(v, c)
              \/ \E i \in 1..Len(confirming) : confirming[i].user = v /\ Finish(i))
               => /\ OthersIn(waiting', v) = OthersIn(waiting, v)
                  /\ OthersIn(confirming', v) = OthersIn(confirming, v)
        /\ \A u \in Users, c \in Replies :
             DM(u, c) =>
               \A o \in DOMAIN heap :
                  /\ \A v \in Users \ {u} : EntrantsOf(heap'[o], v) = EntrantsOf(heap[o], v)
                  /\ \A i \in 1..Len(WaitersOf(u, o)) :
                       c \in ValidReplies(WaitersOf(u, o)[i].emoji) =>
                         \E j \in 1..Len(heap'[o].entrants) :
                            /\ heap'[o].entrants[j].user_id = u
                            /\ heap'[o].entrants[j].category_class
                                  = emoji_class_dict[WaitersOf(u, o)[i].emoji] ]_vars

\* another user's signup has just been confirmed while a user's selection on the
\* same event is pending
C16_Witness ==
    \E i \in 1..Len(waiting), v \in Users :
        /\ v # waiting[i].user
        /\ sent = {Notice(v, "signed_up")}
        /\ get_entrant(heap[waiting[i].ev], v) # <<>>

\* C17: no signup is lost to reconciliation: when a user's valid reply completes a
\* selection, the Entrant is in the event object that the cache holds under the
\* event's guild id and message id, whatever passes ran during the wait; and every
\* flush writes the Entrants of every event object to the store.
C17_NoSignupLost ==
    [][ /\ \A u \in Users, c \in Replies :
             DM(u, c) =>
               \A i \in 1..Len(waiting) :
                  (waiting[i].user = u /\ c \in ValidReplies(waiting[i].emoji)) =>
                     LET ev == heap[waiting[i].ev]
                         held == Lookup(ev.guild_id, ev.message_id)
                     IN  /\ held # NoObj
                         /\ \E j \in 1..Len(heap'[held].entrants) :
                              /\ heap'[held].entrants[j].user_id = u
                              /\ heap'[held].entrants[j].category_class
                                    = emoji_class_dict[waiting[i].emoji]
        /\ (check_events \/ cog_unload) =>
             \A o \in DOMAIN heap :
                /\ <<heap[o].guild_id, heap[o].message_id>> \in DOMAIN store'
                /\ store'[<<heap[o].guild_id, heap[o].message_id>>].entrants
                      = json(heap[o]).entrants ]_vars

\* C18: when a user has reacted with a class emoji to the message of an ended
\* event (the prompt is the last thing that was sent) and now replies, the roster
\* of the ended event stays as it was.
C18_EndedRosterFixed ==
    [][ \A u \in Users, c \in Replies :
          (DM(u, c) /\ Notice(u, "prompt") \in sent) =>
            \A o \in DOMAIN heap :
               heap[o].ended => heap'[o].entrants = heap[o].entrants ]_vars

\* C19: one direct-message reply completes at most one pending spec selection:
\* it creates at most one Entrant, and of two pending selections of the user the
\* other one stays pending.
C19_OneReplyOneSelection ==
    [][ \A u \in Users, c \in Replies :
          DM(u, c) =>
            /\ Len(confirming') - Len(confirming) <= 1
            /\ \A o \in DOMAIN heap : Len(Added(o)) <= 1
            /\ (Len(SelectSeq(waiting, LAMBDA w : w.user = u)) = 2 /\ confirming' # confirming)
                 => Len(SelectSeq(waiting', LAMBDA w : w.user = u)) = 1 ]_vars

\* C20: whenever no handler is in progress for a cached event whose message is
\* fetched, the embed shown on the message is the rendering of the event's
\* current roster and ended flag.
C20_EmbedShowsEvent ==
    \A g \in Guilds : \A m \in DOMAIN cache[g].events :
        LET o == cache[g].events[m]
        IN  (/\ message(heap[o])
             /\ \A i \in 1..Len(waiting) : waiting[i].ev # o
             /\ \A i \in 1..Len(confirming) : confirming[i].ev # o
             /\ leave = <<>>)
              => embed[heap[o].message_id] = Render(heap[o])

====
